---- MODULE Spec2Model ----
(***************************************************************************)
(* Model of examples/drag-out.rs: an OLE drag source.  DragDropClient is   *)
(* the IDropSource, DragDropObject the IDataObject and                     *)
(* IDataObjectAsyncCapability, main's MouseInput handler the driver.       *)
(* The Win32 global heap, the shell's standard FORMATETC enumerator and    *)
(* the DoDragDrop loop are the environment the code calls into.            *)
(***************************************************************************)
EXTENDS Integers, Sequences, FiniteSets, TLC

VARIABLES
  heap,        \* the Win32 global heap: handle -> block
  overrun,     \* bytes the program has written past the end of a block
  fault,       \* "none", or why the process has died
  obj,         \* is there a live DragDropObject
  fmtetc,      \* DragDropObject.fmtetc
  stgmeds,     \* DragDropObject.stgmeds
  fdoopasync,  \* DragDropObject.fdoopasync : RefCell<bool>, [flag, value]
  inoperation, \* DragDropObject.inoperation : RefCell<bool>, [flag, value]
  enums,       \* the IEnumFORMATETC objects handed out: [items, pos]
  ret,         \* the last call into the objects and what it returned
  hist,        \* what the caller has asked of the async capability so far
  pc,          \* where main's event loop is
  window,      \* main's `window` Option: TRUE while Some
  drag,        \* the gesture: what DoDragDrop has decided and seen
  owned,       \* the handles get has handed to consumers, not yet released
  thr          \* the threads calling the async capability concurrently

vars == <<heap, overrun, fault, obj, fmtetc, stgmeds, fdoopasync, inoperation,
          enums, ret, hist, pc, window, drag, owned, thr>>

---------------------------------------------------------------------------
(* Bounds of the model *)
MaxHandles == 3
MaxTable == 2
MaxEnums == 2
MaxOwned == 1

---------------------------------------------------------------------------
(* Win32 constants the source imports *)
S_OK == 0
DRAGDROP_S_DROP == 262400
DRAGDROP_S_CANCEL == 262401
DRAGDROP_S_USEDEFAULTCURSORS == 262402
DV_E_FORMATETC == -2147221404
E_NOTIMPL == -2147467263
E_OUTOFMEMORY == -2147024882
OLE_E_ADVISENOTSUPPORTED == -2147221501
\* HRESULT_FROM_WIN32(ERROR_NOT_ENOUGH_MEMORY): what `GlobalAlloc(..)?` carries
E_WIN32_NOT_ENOUGH_MEMORY == -2147024888
DATADIR_GET == 1
DVASPECT_CONTENT == 1
TYMED_HGLOBAL == 1
TYMED_FILE == 2
CF_TEXT == 1
CF_BITMAP == 2
MK_LBUTTON == 1
MK_RBUTTON == 2
DROPEFFECT_NONE == 0
DROPEFFECT_COPY == 1
DROPEFFECT_LINK == 4

\* const DATA_E_FORMATETC: HRESULT = HRESULT(-2147221404 + 1);
DATA_E_FORMATETC == -2147221404 + 1

---------------------------------------------------------------------------
(* Integer helpers *)
Min(a, b) == IF a < b THEN a ELSE b
Max(a, b) == IF a > b THEN a ELSE b

RECURSIVE BitAnd(_, _)
\* a & b on non-negative integers
BitAnd(a, b) ==
  IF a = 0 \/ b = 0 THEN 0
  ELSE (IF a % 2 = 1 /\ b % 2 = 1 THEN 1 ELSE 0) + 2 * BitAnd(a \div 2, b \div 2)

\* a | b on non-negative integers
BitOr(a, b) == a + b - BitAnd(a, b)

---------------------------------------------------------------------------
(* The Win32 global heap.  A block is its bytes; Uninit is a byte nobody   *)
(* has written yet (GMEM_FIXED and flags 0 do not zero the block).         *)
Uninit == -1
NULL == 0
Handles == 1 .. MaxHandles
NoBlock == [alloc |-> FALSE, bytes |-> <<>>]
EmptyHeap == [h \in Handles |-> NoBlock]

IsBlock(hp, h) == h \in Handles /\ hp[h].alloc
FreeHandles(hp) == {h \in Handles : ~hp[h].alloc}
LowestFree(hp) == CHOOSE h \in FreeHandles(hp) : \A g \in FreeHandles(hp) : h <= g

\* GlobalAlloc(flags, n): Err when the heap is exhausted (or the allocator says
\* so: ok = FALSE), else a fresh block of n unwritten bytes.
GlobalAlloc(hp, n, ok) ==
  IF ok /\ FreeHandles(hp) # {}
  THEN LET h == LowestFree(hp) IN
       [hr |-> S_OK, h |-> h,
        heap |-> [hp EXCEPT ![h] = [alloc |-> TRUE,
                                    bytes |-> [i \in 1 .. n |-> Uninit]]]]
  ELSE [hr |-> E_WIN32_NOT_ENOUGH_MEMORY, h |-> NULL, heap |-> hp]

\* GlobalSize(h): the block's size in bytes, 0 for a handle that is no block
GlobalSize(hp, h) == IF IsBlock(hp, h) THEN Len(hp[h].bytes) ELSE 0

\* GlobalLock(h): a pointer to the block (the handle itself: the blocks are
\* fixed memory, whose lock count stays zero), null for a handle that is no
\* block or when the lock fails (ok = FALSE)
GlobalLock(hp, h, ok) == IF ok /\ IsBlock(hp, h) THEN h ELSE NULL

\* GlobalFree(h)
GlobalFree(hp, h) == IF IsBlock(hp, h) THEN [hp EXCEPT ![h] = NoBlock] ELSE hp

\* std::ptr::copy_nonoverlapping of n bytes of src to the start of block d:
\* the bytes that fit land in the block, the rest past its end.
CopyBytes(hp, d, src, n) ==
  LET size == Len(hp[d].bytes)
      fit == Min(n, size)
  IN [heap |-> [hp EXCEPT ![d].bytes =
                  [i \in 1 .. size |-> IF i <= fit THEN src[i] ELSE @[i]]],
      over |-> n - fit]

---------------------------------------------------------------------------
(* Text encoding: OsString::from(s).encode_wide(), and what a consumer     *)
(* reads back from a block of CF text.                                     *)

\* the UTF-16 code units of one code point
WideUnits(cp) ==
  IF cp < 65536 THEN <<cp>>
  ELSE <<55296 + ((cp - 65536) \div 1024), 56320 + ((cp - 65536) % 1024)>>

RECURSIVE encode_wide(_)
\* OsStr::encode_wide over a sequence of code points
encode_wide(s) ==
  IF s = <<>> THEN <<>> ELSE WideUnits(Head(s)) \o encode_wide(Tail(s))

\* the bytes of a &[u16] in memory (little endian)
ToBytes(units) ==
  [i \in 1 .. 2 * Len(units) |->
     IF i % 2 = 1 THEN units[(i + 1) \div 2] % 256 ELSE units[i \div 2] \div 256]

\* the whole 16-bit units a block of bytes holds
ToUnits(bytes) ==
  [k \in 1 .. (Len(bytes) \div 2) |-> bytes[2 * k - 1] + 256 * bytes[2 * k]]

RECURSIVE UpToNul(_)
\* the units before the first null unit (all of them when there is none)
UpToNul(units) ==
  IF units = <<>> \/ Head(units) = 0 THEN <<>>
  ELSE <<Head(units)>> \o UpToNul(Tail(units))

\* "Hello From TAO DROP"
HelloText ==
  <<72, 101, 108, 108, 111, 32, 70, 114, 111, 109, 32, 84, 65, 79, 32, 68, 82, 79, 80>>

\* osstr.encode_wide().chain(Some(0)).collect()
HelloData == encode_wide(HelloText) \o <<0>>

---------------------------------------------------------------------------
(* The two memory helpers of the source *)

\* fn global_from_data(data: &[u16]) -> Result<HGLOBAL>
\* [hr, h, heap, asked, wrote, over, locked]: asked is the size asked of
\* GlobalAlloc, wrote the bytes the copy wrote, over those of them past the end
\* of the block, locked the GlobalLock calls no GlobalUnlock has answered
global_from_data(hp, data, allocOk, lockOk) ==
  LET a == GlobalAlloc(hp, Len(data), allocOk) IN
  IF a.hr # S_OK
  THEN [hr |-> a.hr, h |-> NULL, heap |-> hp, asked |-> Len(data), wrote |-> 0,
        over |-> 0, locked |-> 0]
  ELSE LET global_data == GlobalLock(a.heap, a.h, lockOk) IN
       IF global_data = NULL
       THEN [hr |-> E_OUTOFMEMORY, h |-> NULL, heap |-> GlobalFree(a.heap, a.h),
             asked |-> Len(data), wrote |-> 0, over |-> 0, locked |-> 0]
       ELSE LET c == CopyBytes(a.heap, a.h, ToBytes(data), 2 * Len(data)) IN
            [hr |-> S_OK, h |-> a.h, heap |-> c.heap, asked |-> Len(data),
             wrote |-> 2 * Len(data), over |-> c.over, locked |-> 0]

\* duplicate_global_data, were it to give the source block up after the copy
duplicate_global_data_move(hp, global, allocOk, lockOk) ==
  LET len == GlobalSize(hp, global)
      src == GlobalLock(hp, global, lockOk)
      a == GlobalAlloc(hp, len, allocOk)
  IN IF a.hr # S_OK
     THEN [hr |-> a.hr, h |-> NULL, heap |-> hp, nullread |-> FALSE,
           locked |-> IF src # NULL THEN 1 ELSE 0]
     ELSE IF src = NULL
          THEN [hr |-> S_OK, h |-> a.h, heap |-> a.heap, nullread |-> len > 0,
                locked |-> 0]
          ELSE LET c == CopyBytes(a.heap, a.h, hp[src].bytes, len) IN
               [hr |-> S_OK, h |-> a.h, heap |-> GlobalFree(c.heap, global),
                nullread |-> FALSE, locked |-> 0]

\* fn duplicate_global_data(global: HGLOBAL) -> Result<HGLOBAL>
\* [hr, h, heap, nullread, locked]: nullread says the copy read len > 0 bytes
\* through a null source pointer (the destination is then left as the
\* allocator gave it); locked counts the GlobalLock calls that returned a
\* pointer and that no GlobalUnlock has answered
duplicate_global_data(hp, global, allocOk, lockOk) ==
  LET len == GlobalSize(hp, global)
      src == GlobalLock(hp, global, lockOk)
      a == GlobalAlloc(hp, len, allocOk)
  IN IF a.hr # S_OK
     THEN [hr |-> a.hr, h |-> NULL, heap |-> hp, nullread |-> FALSE,
           locked |-> IF src # NULL THEN 1 ELSE 0]
     ELSE IF src = NULL
          THEN [hr |-> S_OK, h |-> a.h, heap |-> a.heap, nullread |-> len > 0,
                locked |-> 0]
          ELSE LET c == CopyBytes(a.heap, a.h, hp[src].bytes, len) IN
               [hr |-> S_OK, h |-> a.h, heap |-> c.heap, nullread |-> FALSE,
                locked |-> 0]

---------------------------------------------------------------------------
(* FORMATETC and STGMEDIUM *)

FormatEtc(cf, ptd, aspect, lindex, tymed) ==
  [cfFormat |-> cf, ptd |-> ptd, dwAspect |-> aspect, lindex |-> lindex,
   tymed |-> tymed]

\* STGMEDIUM::default(): all zero
StgMediumDefault == [tymed |-> 0, hGlobal |-> NULL, pUnkForRelease |-> "None"]

\* what a failed call hands back instead of a medium
NoMedium == [tymed |-> -1, hGlobal |-> NULL, pUnkForRelease |-> "None"]

\* the closure of lookup_format, were it to forget lindex
FormatMatches_nolindex(e, format) ==
  /\ e.cfFormat = format.cfFormat
  /\ BitAnd(e.tymed, format.tymed) # 0
  /\ e.dwAspect = format.dwAspect

\* the closure of lookup_format: does table entry e answer the request
FormatMatches(e, format) ==
  /\ e.cfFormat = format.cfFormat
  /\ BitAnd(e.tymed, format.tymed) # 0
  /\ e.dwAspect = format.dwAspect
  /\ e.lindex = format.lindex

\* lookup_format, were it to take the last match (rposition)
lookup_format_last(table, format) ==
  LET hits == {i \in 1 .. Len(table) : FormatMatches(table[i], format)} IN
  IF hits = {} THEN 0 ELSE CHOOSE i \in hits : \A j \in hits : i >= j

\* fn lookup_format(&self, pformatetc) -> Option<usize>
\* the 1-based position of the first entry that matches, 0 for None
lookup_format(table, format) ==
  LET hits == {i \in 1 .. Len(table) : FormatMatches(table[i], format)} IN
  IF hits = {} THEN 0 ELSE CHOOSE i \in hits : \A j \in hits : i <= j

---------------------------------------------------------------------------
(* DragDropObject *)

\* RefCell::new(v): the borrow flag (0 unused, > 0 readers, -1 a writer) and the value
RefCellNew(v) == [flag |-> 0, value |-> v]

\* create_data_object, were it to keep the formats and lose the media
create_data_object_nomedia(f, s) ==
  [fmtetc |-> f, stgmeds |-> <<>>,
   fdoopasync |-> RefCellNew(FALSE), inoperation |-> RefCellNew(FALSE)]

\* fn create_data_object(fmtetc, stgmeds) -> DragDropObject
create_data_object(f, s) ==
  [fmtetc |-> f, stgmeds |-> s,
   fdoopasync |-> RefCellNew(FALSE), inoperation |-> RefCellNew(FALSE)]

\* fn GetData(&self, pformatetcin) -> Result<STGMEDIUM>
\* [hr, med, idx, heap, nullread, panic, locked]; panic is the index check of
\* self.stgmeds[idx], locked the GlobalLock calls left without a GlobalUnlock
GetData(table, meds, hp, q, allocOk, lockOk) ==
  LET idx == lookup_format(table, q) IN
  IF idx = 0
  THEN [hr |-> DV_E_FORMATETC, med |-> NoMedium, idx |-> 0, heap |-> hp,
        nullread |-> FALSE, panic |-> FALSE, locked |-> 0]
  ELSE IF table[idx].tymed = TYMED_HGLOBAL
       THEN IF idx > Len(meds)
            THEN [hr |-> S_OK, med |-> NoMedium, idx |-> idx, heap |-> hp,
                  nullread |-> FALSE, panic |-> TRUE, locked |-> 0]
            ELSE LET d == duplicate_global_data(hp, meds[idx].hGlobal, allocOk, lockOk) IN
                 IF d.hr # S_OK
                 THEN [hr |-> d.hr, med |-> NoMedium, idx |-> idx, heap |-> d.heap,
                       nullread |-> FALSE, panic |-> FALSE, locked |-> d.locked]
                 ELSE [hr |-> S_OK,
                       med |-> [tymed |-> table[idx].tymed, hGlobal |-> d.h,
                                pUnkForRelease |-> "None"],
                       idx |-> idx, heap |-> d.heap, nullread |-> d.nullread,
                       panic |-> FALSE, locked |-> d.locked]
       ELSE [hr |-> S_OK,
             med |-> [StgMediumDefault EXCEPT !.tymed = table[idx].tymed],
             idx |-> idx, heap |-> hp, nullread |-> FALSE, panic |-> FALSE, locked |-> 0]

\* fn GetDataHere(&self, _pformatetc, _pmedium) -> Result<()>
GetDataHere(table, q) == DATA_E_FORMATETC

\* fn QueryGetData(&self, pformatetc) -> HRESULT
QueryGetData(table, q) ==
  IF lookup_format(table, q) # 0 THEN S_OK ELSE DV_E_FORMATETC

\* fn GetCanonicalFormatEtc(&self, _pformatectin, pformatetcout) -> HRESULT
\* [hr, out]: out is *pformatetcout after the call
GetCanonicalFormatEtc(q, out) == [hr |-> E_NOTIMPL, out |-> [out EXCEPT !.ptd = "null"]]

\* fn SetData(&self, _pformatetc, _pmedium, _frelease) -> Result<()>
SetData(q, med, frelease) == E_NOTIMPL

\* `dwdirection as i32`: a u32 above i32::MAX wraps to a negative number
AsI32(u) == IF u > 2147483647 THEN (u - 2147483647) - 2147483647 - 2 ELSE u

\* EnumFormatEtc, were it to hand the shell the array without its first entry
EnumFormatEtc_tail(table, dwdirection, shellOk) ==
  IF AsI32(dwdirection) = DATADIR_GET
  THEN IF shellOk
       THEN [hr |-> S_OK, items |-> IF table = <<>> THEN table ELSE Tail(table)]
       ELSE [hr |-> E_OUTOFMEMORY, items |-> <<>>]
  ELSE [hr |-> E_NOTIMPL, items |-> <<>>]

\* EnumFormatEtc, were it to refuse only the set direction (DATADIR_SET = 2)
EnumFormatEtc_notset(table, dwdirection, shellOk) ==
  IF AsI32(dwdirection) # 2
  THEN IF shellOk
       THEN [hr |-> S_OK, items |-> table]
       ELSE [hr |-> E_OUTOFMEMORY, items |-> <<>>]
  ELSE [hr |-> E_NOTIMPL, items |-> <<>>]

\* fn EnumFormatEtc(&self, dwdirection: u32) -> Result<IEnumFORMATETC>
\* [hr, items]: items is the array the enumerator SHCreateStdEnumFmtEtc makes
\* has copied; shellOk = FALSE: the shell could not make one
EnumFormatEtc(table, dwdirection, shellOk) ==
  IF AsI32(dwdirection) = DATADIR_GET
  THEN IF shellOk
       THEN [hr |-> S_OK, items |-> table]
       ELSE [hr |-> E_OUTOFMEMORY, items |-> <<>>]
  ELSE [hr |-> E_NOTIMPL, items |-> <<>>]

\* fn DAdvise(&self, _pformatetc, _advf, _padvsink) -> Result<u32>
DAdvise(q, advf) == OLE_E_ADVISENOTSUPPORTED

\* fn DUnadvise(&self, _dwconnection) -> Result<()>
DUnadvise(dwconnection) == OLE_E_ADVISENOTSUPPORTED

\* fn EnumDAdvise(&self) -> Result<IEnumSTATDATA>
EnumDAdvise == OLE_E_ADVISENOTSUPPORTED

---------------------------------------------------------------------------
(* IDataObjectAsyncCapability.  A RefCell is [flag, value]; replace and     *)
(* borrow panic when the flag says the cell is already borrowed the other  *)
(* way.                                                                    *)

\* RefCell::replace(v): [panic, cell]
RefCellReplace(cell, v) ==
  IF cell.flag # 0
  THEN [panic |-> TRUE, cell |-> cell]
  ELSE [panic |-> FALSE, cell |-> [cell EXCEPT !.value = v]]

\* *RefCell::borrow(): [panic, value]
RefCellRead(cell) ==
  IF cell.flag < 0
  THEN [panic |-> TRUE, value |-> FALSE]
  ELSE [panic |-> FALSE, value |-> cell.value]

\* fn SetAsyncMode(&self, fdoopasync: BOOL) -> Result<()>
SetAsyncMode(cell, b) == RefCellReplace(cell, b)

\* fn GetAsyncMode(&self) -> Result<BOOL>
GetAsyncMode(cell) == RefCellRead(cell)

\* fn StartOperation(&self, _pbcreserved) -> Result<()>
StartOperation(cell) == RefCellReplace(cell, TRUE)

\* fn InOperation(&self) -> Result<BOOL>
InOperation(cell) == RefCellRead(cell)

\* EndOperation, were it to clear the flag only after a successful transfer
EndOperation_onsuccess(cell, hresult, dweffects) ==
  IF hresult = S_OK THEN RefCellReplace(cell, FALSE) ELSE [panic |-> FALSE, cell |-> cell]

\* fn EndOperation(&self, _hresult, _pbcreserved, _dweffects) -> Result<()>
EndOperation(cell, hresult, dweffects) == RefCellReplace(cell, FALSE)

---------------------------------------------------------------------------
(* DragDropClient: IDropSource *)

\* QueryContinueDrag, were it to look at the primary button alone
QueryContinueDrag_lbutton(fescapepressed, grfkeystate) ==
  IF fescapepressed
  THEN DRAGDROP_S_CANCEL
  ELSE IF BitAnd(grfkeystate, MK_LBUTTON) = 0
       THEN DRAGDROP_S_DROP
       ELSE S_OK

\* fn QueryContinueDrag(&self, fescapepressed: BOOL, grfkeystate) -> HRESULT
QueryContinueDrag(fescapepressed, grfkeystate) ==
  IF fescapepressed
  THEN DRAGDROP_S_CANCEL
  ELSE IF BitAnd(grfkeystate, BitOr(MK_LBUTTON, MK_RBUTTON)) = 0
       THEN DRAGDROP_S_DROP
       ELSE S_OK

\* fn GiveFeedback(&self, _dweffect) -> HRESULT
GiveFeedback(dweffect) == DRAGDROP_S_USEDEFAULTCURSORS

---------------------------------------------------------------------------
(* What callers pass in *)

NoFormat == FormatEtc(0, "null", 0, 0, 0)

\* the (cfFormat, dwAspect, lindex) a consumer asks about
QueryKeys ==
  { <<CF_TEXT, 0, -1>>, <<CF_TEXT, 0, 0>>, <<CF_TEXT, DVASPECT_CONTENT, -1>>,
    <<CF_TEXT, DVASPECT_CONTENT, 0>>, <<CF_BITMAP, DVASPECT_CONTENT, 0>>,
    <<CF_BITMAP, DVASPECT_CONTENT, -1>> }

\* the media a consumer says it accepts
QueryTymeds == {0, TYMED_HGLOBAL, TYMED_FILE, BitOr(TYMED_HGLOBAL, TYMED_FILE)}

\* the FORMATETCs a consumer asks about
Queries ==
  {FormatEtc(k[1], "null", k[2], k[3], ty) : k \in QueryKeys, ty \in QueryTymeds}

\* One row of a table a caller of create_data_object builds: the FORMATETC, and
\* the block its STGMEDIUM's hGlobal names (has = FALSE: a null hGlobal).
Row(fmt, has, bytes) == [fmt |-> fmt, has |-> has, bytes |-> bytes]

TableRows ==
  { Row(FormatEtc(CF_TEXT, "null", 0, -1, TYMED_HGLOBAL), TRUE, <<72, 0>>),
    Row(FormatEtc(CF_TEXT, "null", DVASPECT_CONTENT, -1, TYMED_HGLOBAL), TRUE, <<65, 0, 0, 0>>),
    Row(FormatEtc(CF_TEXT, "null", DVASPECT_CONTENT, -1, TYMED_FILE), FALSE, <<>>),
    Row(FormatEtc(CF_TEXT, "null", DVASPECT_CONTENT, -1, BitOr(TYMED_HGLOBAL, TYMED_FILE)), FALSE, <<>>),
    Row(FormatEtc(CF_BITMAP, "null", DVASPECT_CONTENT, 0, 0), FALSE, <<>>),
    Row(FormatEtc(CF_TEXT, "null", DVASPECT_CONTENT, -1, TYMED_HGLOBAL), FALSE, <<>>) }

Tables == UNION {[1 .. n -> TableRows] : n \in 0 .. MaxTable}

\* the handle of row i's block: blocks are allocated in row order
RowHandle(rows, i) ==
  IF rows[i].has THEN Cardinality({j \in 1 .. i : rows[j].has}) ELSE NULL

\* the heap once the caller has allocated and filled every row's block
RowsHeap(rows) ==
  [h \in Handles |->
     IF \E i \in 1 .. Len(rows) : RowHandle(rows, i) = h
     THEN LET i == CHOOSE j \in 1 .. Len(rows) : RowHandle(rows, j) = h IN
          [alloc |-> TRUE, bytes |-> rows[i].bytes]
     ELSE NoBlock]

RowsFormats(rows) == [i \in 1 .. Len(rows) |-> rows[i].fmt]

RowsMedia(rows) ==
  [i \in 1 .. Len(rows) |->
     [tymed |-> rows[i].fmt.tymed, hGlobal |-> RowHandle(rows, i),
      pUnkForRelease |-> "None"]]

---------------------------------------------------------------------------
(* State *)

\* the record of a call: its name, its arguments, what it returned
Ret(op) ==
  [op |-> op, fmt |-> NoFormat, n |-> 0, b |-> FALSE, hr |-> S_OK,
   med |-> NoMedium, idx |-> 0, val |-> FALSE, allocOk |-> TRUE,
   lockOk |-> TRUE, out |-> NoFormat, locked |-> 0]

\* no gesture: DoDragDrop not called, nothing decided, nothing returned
NoDrag == [called |-> FALSE, decision |-> "none", hr |-> S_OK]
NoHist == [mode |-> FALSE, started |-> FALSE]
NoThreads == <<>>

\* main before the first event: no data object yet
Init ==
  /\ heap = EmptyHeap
  /\ overrun = 0
  /\ fault = "none"
  /\ obj = FALSE
  /\ fmtetc = <<>>
  /\ stgmeds = <<>>
  /\ fdoopasync = RefCellNew(FALSE)
  /\ inoperation = RefCellNew(FALSE)
  /\ enums = <<>>
  /\ ret = Ret("none")
  /\ hist = NoHist
  /\ pc = "wait"
  /\ window = TRUE
  /\ drag = NoDrag
  /\ owned = {}
  /\ thr = NoThreads

\* a data object just made by create_data_object from a caller's table
InitTable ==
  \E rows \in Tables :
    LET o == create_data_object(RowsFormats(rows), RowsMedia(rows)) IN
    /\ heap = RowsHeap(rows)
    /\ overrun = 0
    /\ fault = "none"
    /\ obj = TRUE
    /\ fmtetc = o.fmtetc
    /\ stgmeds = o.stgmeds
    /\ fdoopasync = o.fdoopasync
    /\ inoperation = o.inoperation
    /\ enums = <<>>
    /\ ret = Ret("none")
    /\ hist = NoHist
    /\ pc = "wait"
    /\ window = TRUE
    /\ drag = NoDrag
    /\ owned = {}
    /\ thr = NoThreads

\* calls reach the data object while it lives and the process has not died
Alive == obj /\ fault = "none"

\* the process dies
Die(why) ==
  /\ fault' = why
  /\ UNCHANGED <<heap, overrun, obj, fmtetc, stgmeds, fdoopasync, inoperation,
                 enums, ret, hist, pc, window, drag, owned, thr>>

\* what may follow undefined behaviour: the process goes on, or it dies
Outcomes(ub) == IF ub THEN {"goes_on", "dies"} ELSE {"goes_on"}

---------------------------------------------------------------------------
(* Calls into IDataObject *)

\* does GetData(q) reach duplicate_global_data
Duplicates(table, meds, q) ==
  LET idx == lookup_format(table, q) IN
  idx # 0 /\ idx <= Len(meds) /\ table[idx].tymed = TYMED_HGLOBAL

\* what the allocator and the lock may answer during a call
EnvChoices(used) == IF used THEN BOOLEAN ELSE {TRUE}

\* a consumer calls GetData(q)
CallGetData(q) ==
  /\ Alive
  /\ Cardinality(owned) < MaxOwned
  /\ \E allocOk \in EnvChoices(Duplicates(fmtetc, stgmeds, q)),
        lockOk \in EnvChoices(Duplicates(fmtetc, stgmeds, q)) :
       LET r == GetData(fmtetc, stgmeds, heap, q, allocOk, lockOk) IN
       IF r.panic
       THEN Die("panic")
       ELSE \E outcome \in Outcomes(r.nullread
                                      \/ (Duplicates(fmtetc, stgmeds, q) /\ overrun > 0)) :
              IF outcome = "dies"
              THEN Die(IF r.nullread THEN "null_read" ELSE "heap_corruption")
              ELSE /\ heap' = r.heap
                   /\ ret' = [Ret("GetData") EXCEPT
                                !.fmt = q, !.hr = r.hr, !.med = r.med, !.idx = r.idx,
                                !.allocOk = allocOk /\ FreeHandles(heap) # {},
                                !.lockOk = lockOk, !.locked = r.locked]
                   /\ owned' = IF r.med.hGlobal # NULL
                               THEN owned \cup {r.med.hGlobal} ELSE owned
                   /\ UNCHANGED <<overrun, fault, obj, fmtetc, stgmeds, fdoopasync,
                                  inoperation, enums, hist, pc, window, drag, thr>>

\* a consumer calls GetDataHere(q, pmedium)
CallGetDataHere(q) ==
  /\ Alive
  /\ ret' = [Ret("GetDataHere") EXCEPT !.fmt = q, !.hr = GetDataHere(fmtetc, q)]
  /\ UNCHANGED <<heap, overrun, fault, obj, fmtetc, stgmeds, fdoopasync,
                 inoperation, enums, hist, pc, window, drag, owned, thr>>

\* a consumer calls QueryGetData(q)
CallQueryGetData(q) ==
  /\ Alive
  /\ ret' = [Ret("QueryGetData") EXCEPT !.fmt = q, !.hr = QueryGetData(fmtetc, q)]
  /\ UNCHANGED <<heap, overrun, fault, obj, fmtetc, stgmeds, fdoopasync,
                 inoperation, enums, hist, pc, window, drag, owned, thr>>

\* a consumer releases a medium get gave it (pUnkForRelease is None: it frees
\* the handle itself)
ReleaseStgMedium(h) ==
  /\ fault = "none"
  /\ h \in owned
  /\ \E outcome \in Outcomes(overrun > 0) :
       IF outcome = "dies"
       THEN Die("heap_corruption")
       ELSE /\ heap' = GlobalFree(heap, h)
            /\ owned' = owned \ {h}
            /\ ret' = [Ret("ReleaseStgMedium") EXCEPT !.n = h]
            /\ UNCHANGED <<overrun, fault, obj, fmtetc, stgmeds, fdoopasync,
                           inoperation, enums, hist, pc, window, drag, thr>>

\* a consumer calls GetCanonicalFormatEtc(q, out); out arrives with a stale ptd
CallGetCanonicalFormatEtc(q) ==
  /\ Alive
  /\ LET r == GetCanonicalFormatEtc(q, [q EXCEPT !.ptd = "stale"]) IN
     ret' = [Ret("GetCanonicalFormatEtc") EXCEPT !.fmt = q, !.hr = r.hr, !.out = r.out]
  /\ UNCHANGED <<heap, overrun, fault, obj, fmtetc, stgmeds, fdoopasync,
                 inoperation, enums, hist, pc, window, drag, owned, thr>>

\* a consumer calls SetData(q, medium, frelease)
CallSetData(q, frelease) ==
  /\ Alive
  /\ ret' = [Ret("SetData") EXCEPT !.fmt = q, !.b = frelease,
                                   !.hr = SetData(q, StgMediumDefault, frelease)]
  /\ UNCHANGED <<heap, overrun, fault, obj, fmtetc, stgmeds, fdoopasync,
                 inoperation, enums, hist, pc, window, drag, owned, thr>>

\* a consumer calls EnumFormatEtc(dwdirection); on success the shell's
\* SHCreateStdEnumFmtEtc makes an enumerator over its own copy of the array
CallEnumFormatEtc(dwdirection) ==
  /\ Alive
  /\ Len(enums) < MaxEnums
  /\ \E shellOk \in EnvChoices(dwdirection = DATADIR_GET) :
       LET r == EnumFormatEtc(fmtetc, dwdirection, shellOk) IN
       /\ enums' = IF r.hr = S_OK
                   THEN Append(enums, [items |-> r.items, pos |-> 0])
                   ELSE enums
       /\ ret' = [Ret("EnumFormatEtc") EXCEPT !.n = dwdirection, !.hr = r.hr,
                                                !.idx = Len(enums')]
  /\ UNCHANGED <<heap, overrun, fault, obj, fmtetc, stgmeds, fdoopasync,
                 inoperation, hist, pc, window, drag, owned, thr>>

\* S_FALSE: IEnumFORMATETC::Next had nothing left to give
S_FALSE == 1

\* a consumer calls Next(1) on enumerator e
EnumNext(e) ==
  /\ Alive
  /\ e \in 1 .. Len(enums)
  /\ IF enums[e].pos < Len(enums[e].items)
     THEN /\ enums' = [enums EXCEPT ![e].pos = @ + 1]
          /\ ret' = [Ret("EnumNext") EXCEPT !.n = e, !.hr = S_OK,
                                            !.idx = enums[e].pos + 1,
                                            !.fmt = enums[e].items[enums[e].pos + 1]]
     ELSE /\ enums' = enums
          /\ ret' = [Ret("EnumNext") EXCEPT !.n = e, !.hr = S_FALSE]
  /\ UNCHANGED <<heap, overrun, fault, obj, fmtetc, stgmeds, fdoopasync,
                 inoperation, hist, pc, window, drag, owned, thr>>

\* a consumer releases the enumerators it holds
EnumRelease ==
  /\ Alive
  /\ enums # <<>>
  /\ enums' = <<>>
  /\ ret' = Ret("EnumRelease")
  /\ UNCHANGED <<heap, overrun, fault, obj, fmtetc, stgmeds, fdoopasync,
                 inoperation, hist, pc, window, drag, owned, thr>>

\* a consumer calls DAdvise(q, advf, sink)
CallDAdvise(q) ==
  /\ Alive
  /\ ret' = [Ret("DAdvise") EXCEPT !.fmt = q, !.hr = DAdvise(q, 0)]
  /\ UNCHANGED <<heap, overrun, fault, obj, fmtetc, stgmeds, fdoopasync,
                 inoperation, enums, hist, pc, window, drag, owned, thr>>

\* a consumer calls DUnadvise(dwconnection)
CallDUnadvise(dwconnection) ==
  /\ Alive
  /\ ret' = [Ret("DUnadvise") EXCEPT !.n = dwconnection, !.hr = DUnadvise(dwconnection)]
  /\ UNCHANGED <<heap, overrun, fault, obj, fmtetc, stgmeds, fdoopasync,
                 inoperation, enums, hist, pc, window, drag, owned, thr>>

\* a consumer calls EnumDAdvise()
CallEnumDAdvise ==
  /\ Alive
  /\ ret' = [Ret("EnumDAdvise") EXCEPT !.hr = EnumDAdvise]
  /\ UNCHANGED <<heap, overrun, fault, obj, fmtetc, stgmeds, fdoopasync,
                 inoperation, enums, hist, pc, window, drag, owned, thr>>

---------------------------------------------------------------------------
(* Calls into IDataObjectAsyncCapability, one at a time *)

\* a consumer calls SetAsyncMode(b)
CallSetAsyncMode(b) ==
  /\ Alive
  /\ LET r == SetAsyncMode(fdoopasync, b) IN
     IF r.panic
     THEN Die("panic")
     ELSE /\ fdoopasync' = r.cell
          /\ ret' = [Ret("SetAsyncMode") EXCEPT !.b = b, !.hr = S_OK]
          /\ hist' = [hist EXCEPT !.mode = b]
          /\ UNCHANGED <<heap, overrun, fault, obj, fmtetc, stgmeds, inoperation,
                         enums, pc, window, drag, owned, thr>>

\* a consumer calls GetAsyncMode()
CallGetAsyncMode ==
  /\ Alive
  /\ LET r == GetAsyncMode(fdoopasync) IN
     IF r.panic
     THEN Die("panic")
     ELSE /\ ret' = [Ret("GetAsyncMode") EXCEPT !.val = r.value, !.hr = S_OK]
          /\ UNCHANGED <<heap, overrun, fault, obj, fmtetc, stgmeds, fdoopasync,
                         inoperation, enums, hist, pc, window, drag, owned, thr>>

\* a consumer calls StartOperation(reserved)
CallStartOperation ==
  /\ Alive
  /\ LET r == StartOperation(inoperation) IN
     IF r.panic
     THEN Die("panic")
     ELSE /\ inoperation' = r.cell
          /\ ret' = [Ret("StartOperation") EXCEPT !.hr = S_OK]
          /\ hist' = [hist EXCEPT !.started = TRUE]
          /\ UNCHANGED <<heap, overrun, fault, obj, fmtetc, stgmeds, fdoopasync,
                         enums, pc, window, drag, owned, thr>>

\* a consumer calls InOperation()
CallInOperation ==
  /\ Alive
  /\ LET r == InOperation(inoperation) IN
     IF r.panic
     THEN Die("panic")
     ELSE /\ ret' = [Ret("InOperation") EXCEPT !.val = r.value, !.hr = S_OK]
          /\ UNCHANGED <<heap, overrun, fault, obj, fmtetc, stgmeds, fdoopasync,
                         inoperation, enums, hist, pc, window, drag, owned, thr>>

\* a consumer calls EndOperation(hresult, reserved, dweffects)
CallEndOperation(hresult, dweffects) ==
  /\ Alive
  /\ LET r == EndOperation(inoperation, hresult, dweffects) IN
     IF r.panic
     THEN Die("panic")
     ELSE /\ inoperation' = r.cell
          /\ ret' = [Ret("EndOperation") EXCEPT !.n = hresult, !.hr = S_OK]
          /\ hist' = [hist EXCEPT !.started = FALSE]
          /\ UNCHANGED <<heap, overrun, fault, obj, fmtetc, stgmeds, fdoopasync,
                         enums, pc, window, drag, owned, thr>>

---------------------------------------------------------------------------
(* main: the event loop's handlers, and DoDragDrop calling the drop source *)

\* the FORMATETC main builds
MainFormatEtc == FormatEtc(CF_TEXT, "&DVASPECT_CONTENT", 0, -1, TYMED_HGLOBAL)

\* the STGMEDIUM main builds around the handle of the payload
MainStgMedium(handle) == [StgMediumDefault EXCEPT !.tymed = TYMED_HGLOBAL, !.hGlobal = handle]

\* the handler, were it to go on to DoDragDrop whatever global_from_data said
MouseInput_nocheck ==
  /\ pc = "wait" /\ window /\ fault = "none"
  /\ \E allocOk \in BOOLEAN, lockOk \in BOOLEAN :
       LET g == global_from_data(heap, HelloData, allocOk, lockOk)
           o == create_data_object(<<MainFormatEtc>>, <<MainStgMedium(g.h)>>)
       IN /\ heap' = g.heap
          /\ overrun' = overrun + g.over
          /\ obj' = TRUE
          /\ fmtetc' = o.fmtetc
          /\ stgmeds' = o.stgmeds
          /\ fdoopasync' = o.fdoopasync
          /\ inoperation' = o.inoperation
          /\ hist' = NoHist
          /\ pc' = "dragging"
          /\ drag' = [called |-> TRUE, decision |-> "none", hr |-> S_OK]
          /\ ret' = [Ret("global_from_data") EXCEPT !.hr = g.hr]
          /\ UNCHANGED <<fault, enums, window, owned, thr>>

\* WindowEvent::MouseInput { Pressed, Left }, up to the call of DoDragDrop
MouseInput ==
  /\ pc = "wait" /\ window /\ fault = "none"
  /\ \E allocOk \in BOOLEAN, lockOk \in BOOLEAN, outcome \in Outcomes(overrun > 0) :
       LET g == global_from_data(heap, HelloData, allocOk, lockOk)
           o == create_data_object(<<MainFormatEtc>>, <<MainStgMedium(g.h)>>)
       IN IF outcome = "dies"
          THEN Die("heap_corruption")
          ELSE IF g.hr # S_OK
               THEN /\ fault' = "panic"
                    /\ heap' = g.heap
                    /\ ret' = [Ret("global_from_data") EXCEPT !.hr = g.hr]
                    /\ UNCHANGED <<overrun, obj, fmtetc, stgmeds, fdoopasync,
                                   inoperation, enums, hist, pc, window, drag,
                                   owned, thr>>
               ELSE /\ heap' = g.heap
                    /\ overrun' = overrun + g.over
                    /\ obj' = TRUE
                    /\ fmtetc' = o.fmtetc
                    /\ stgmeds' = o.stgmeds
                    /\ fdoopasync' = o.fdoopasync
                    /\ inoperation' = o.inoperation
                    /\ hist' = NoHist
                    /\ pc' = "dragging"
                    /\ drag' = [called |-> TRUE, decision |-> "none", hr |-> S_OK]
                    /\ ret' = [Ret("global_from_data") EXCEPT !.hr = g.hr]
                    /\ UNCHANGED <<fault, enums, window, owned, thr>>

\* what DoDragDrop makes of the drop source's answer
Decision(hr) ==
  IF hr = DRAGDROP_S_CANCEL THEN "cancel"
  ELSE IF hr = DRAGDROP_S_DROP THEN "drop"
  ELSE IF hr = S_OK THEN "none"
  ELSE "error"

\* the modifier-key states DoDragDrop reports (MK_LBUTTON, MK_RBUTTON, MK_SHIFT)
KeyStates == 0 .. 7

\* DoDragDrop polls the drop source
OsQueryContinueDrag(fescapepressed, grfkeystate) ==
  /\ pc = "dragging" /\ fault = "none" /\ drag.decision = "none"
  /\ LET hr == QueryContinueDrag(fescapepressed, grfkeystate) IN
     /\ ret' = [Ret("QueryContinueDrag") EXCEPT !.b = fescapepressed,
                                                !.n = grfkeystate, !.hr = hr]
     /\ drag' = [drag EXCEPT !.decision = Decision(hr)]
  /\ UNCHANGED <<heap, overrun, fault, obj, fmtetc, stgmeds, fdoopasync,
                 inoperation, enums, hist, pc, window, owned, thr>>

\* DoDragDrop asks the drop source for feedback
OsGiveFeedback(dweffect) ==
  /\ pc = "dragging" /\ fault = "none" /\ drag.decision = "none"
  /\ ret' = [Ret("GiveFeedback") EXCEPT !.n = dweffect, !.hr = GiveFeedback(dweffect)]
  /\ UNCHANGED <<heap, overrun, fault, obj, fmtetc, stgmeds, fdoopasync,
                 inoperation, enums, hist, pc, window, drag, owned, thr>>

\* DoDragDrop(..) returns hr; then `.ok().unwrap()`, and data_object goes out
\* of scope (nothing frees the payload's handle)
DoDragDropReturns(hr) ==
  /\ pc = "dragging" /\ fault = "none"
  /\ hr = DRAGDROP_S_DROP => drag.decision = "drop"
  /\ hr = DRAGDROP_S_CANCEL => drag.decision = "cancel"
  /\ ret' = [Ret("DoDragDrop") EXCEPT !.hr = hr]
  /\ IF hr < 0
     THEN /\ fault' = "panic"
          /\ drag' = [drag EXCEPT !.hr = hr]
          /\ UNCHANGED <<heap, overrun, obj, fmtetc, stgmeds, fdoopasync,
                         inoperation, enums, hist, pc, window, owned, thr>>
     ELSE /\ pc' = "wait"
          /\ obj' = FALSE
          /\ fmtetc' = <<>>
          /\ stgmeds' = <<>>
          /\ fdoopasync' = RefCellNew(FALSE)
          /\ inoperation' = RefCellNew(FALSE)
          /\ enums' = <<>>
          /\ hist' = NoHist
          /\ drag' = [NoDrag EXCEPT !.hr = hr]
          /\ UNCHANGED <<heap, overrun, fault, window, owned, thr>>

\* WindowEvent::CloseRequested: window = None
CloseRequested ==
  /\ pc = "wait" /\ window /\ fault = "none"
  /\ window' = FALSE
  /\ UNCHANGED <<heap, overrun, fault, obj, fmtetc, stgmeds, fdoopasync,
                 inoperation, enums, ret, hist, pc, drag, owned, thr>>

\* WindowEvent::Destroyed: ControlFlow::Exit
Destroyed ==
  /\ pc = "wait" /\ ~window /\ fault = "none"
  /\ pc' = "exit"
  /\ UNCHANGED <<heap, overrun, fault, obj, fmtetc, stgmeds, fdoopasync,
                 inoperation, enums, ret, hist, window, drag, owned, thr>>

\* the directions a consumer asks EnumFormatEtc for
Directions == {0, 1, 2, 3, 2147483647}

\* the HRESULTs DoDragDrop may return
DragResults == {DRAGDROP_S_DROP, DRAGDROP_S_CANCEL, E_OUTOFMEMORY}

\* the descriptors the consumers of main's data object ask about: the one
\* main offers, and ones that differ from it in one field
DragQueries ==
  { FormatEtc(CF_TEXT, "null", 0, -1, TYMED_HGLOBAL),
    FormatEtc(CF_TEXT, "null", 0, -1, BitOr(TYMED_HGLOBAL, TYMED_FILE)),
    FormatEtc(CF_TEXT, "null", 0, -1, TYMED_FILE),
    FormatEtc(CF_TEXT, "null", DVASPECT_CONTENT, -1, TYMED_HGLOBAL),
    FormatEtc(CF_TEXT, "null", 0, 0, TYMED_HGLOBAL),
    FormatEtc(CF_BITMAP, "null", 0, -1, TYMED_HGLOBAL) }

\* the descriptors they pass to the calls that do not look at them
SomeQueries == {q \in DragQueries : q.tymed = TYMED_HGLOBAL /\ q.lindex = -1}

---------------------------------------------------------------------------
(* The program *)

Next ==
  \/ MouseInput
  \/ CloseRequested
  \/ Destroyed
  \/ \E esc \in BOOLEAN, keys \in KeyStates : OsQueryContinueDrag(esc, keys)
  \/ \E effect \in {DROPEFFECT_NONE, DROPEFFECT_COPY, DROPEFFECT_LINK} :
       OsGiveFeedback(effect)
  \/ \E hr \in DragResults : DoDragDropReturns(hr)
  \/ \E q \in DragQueries : CallGetData(q)
  \/ \E q \in DragQueries : CallGetDataHere(q)
  \/ \E q \in DragQueries : CallQueryGetData(q)
  \/ \E h \in Handles : ReleaseStgMedium(h)
  \/ \E q \in SomeQueries : CallGetCanonicalFormatEtc(q)
  \/ \E q \in SomeQueries, frelease \in BOOLEAN : CallSetData(q, frelease)
  \/ \E dir \in Directions : CallEnumFormatEtc(dir)
  \/ EnumRelease
  \/ \E q \in SomeQueries : CallDAdvise(q)
  \/ \E c \in {0, 1} : CallDUnadvise(c)
  \/ CallEnumDAdvise
  \/ \E b \in BOOLEAN : CallSetAsyncMode(b)
  \/ CallGetAsyncMode
  \/ CallStartOperation
  \/ CallInOperation
  \/ \E hr \in {S_OK, E_OUTOFMEMORY} : CallEndOperation(hr, DROPEFFECT_COPY)

Spec == Init /\ [][Next]_vars

\* the inputs that end a gesture: escape pressed, or both buttons up
InputEnds(fescapepressed, grfkeystate) ==
  fescapepressed \/ BitAnd(grfkeystate, BitOr(MK_LBUTTON, MK_RBUTTON)) = 0

\* DoDragDrop polls with an input that ends the gesture
OsPollsEnd ==
  \E esc \in BOOLEAN, keys \in KeyStates :
    InputEnds(esc, keys) /\ OsQueryContinueDrag(esc, keys)

\* DoDragDrop returns
OsReturns == \E hr \in DragResults : DoDragDropReturns(hr)

\* the program when the user at last presses escape or lets the buttons go,
\* and DoDragDrop returns once the drop source has decided
SpecLive == Init /\ [][Next]_vars /\ WF_vars(OsPollsEnd) /\ WF_vars(OsReturns)

---------------------------------------------------------------------------
(* The data object of any table, asked for its data *)

NextTable ==
  \/ \E q \in Queries : CallGetData(q)
  \/ \E q \in Queries : CallQueryGetData(q)
  \/ \E h \in Handles : ReleaseStgMedium(h)

SpecTable == InitTable /\ [][NextTable]_vars

---------------------------------------------------------------------------
(* The data object of any table, asked for its formats *)

NextEnum ==
  \/ \E dir \in Directions : CallEnumFormatEtc(dir)
  \/ \E e \in 1 .. MaxEnums : EnumNext(e)
  \/ EnumRelease

SpecEnum == InitTable /\ [][NextEnum]_vars

---------------------------------------------------------------------------
(* The async flags under two threads.  RefCell keeps its borrow count in a
   plain Cell<isize>: replace() is try_borrow_mut (load the count, store -1),
   the write, and the drop of the RefMut (count + 1); borrow() is try_borrow
   (load the count, store count + 1), the read, and the drop of the Ref
   (count - 1).  Two threads' loads and stores of the cells interleave. *)

Threads == {"owner", "consumer"}
WriteOps == {"SetAsyncMode", "StartOperation", "EndOperation"}
ReadOps == {"GetAsyncMode", "InOperation"}

\* a thread outside every call
IdleThread ==
  [pc |-> "idle", op |-> "none", arg |-> FALSE, b |-> 0, val |-> FALSE, seen |-> {}]

\* the cell an operation works on
CellOf(op) ==
  IF op \in {"SetAsyncMode", "GetAsyncMode"} THEN "fdoopasync" ELSE "inoperation"

Cell(which) == IF which = "fdoopasync" THEN fdoopasync ELSE inoperation

SetCell(which, c) ==
  /\ fdoopasync' = IF which = "fdoopasync" THEN c ELSE fdoopasync
  /\ inoperation' = IF which = "inoperation" THEN c ELSE inoperation

\* the value an operation stores
Stored(op, b) ==
  IF op = "StartOperation" THEN TRUE ELSE IF op = "EndOperation" THEN FALSE ELSE b

\* DoDragDrop is running on main's object; both threads hold the object
InitConc ==
  LET g == global_from_data(EmptyHeap, HelloData, TRUE, TRUE)
      o == create_data_object(<<MainFormatEtc>>, <<MainStgMedium(g.h)>>)
  IN /\ heap = g.heap
     /\ overrun = g.over
     /\ fault = "none"
     /\ obj = TRUE
     /\ fmtetc = o.fmtetc
     /\ stgmeds = o.stgmeds
     /\ fdoopasync = o.fdoopasync
     /\ inoperation = o.inoperation
     /\ enums = <<>>
     /\ ret = Ret("global_from_data")
     /\ hist = NoHist
     /\ pc = "dragging"
     /\ window = TRUE
     /\ drag = [called |-> TRUE, decision |-> "none", hr |-> S_OK]
     /\ owned = {}
     /\ thr = [t \in Threads |-> IdleThread]

\* thread t enters one of the five methods
ThreadCall(t, op, b) ==
  /\ Alive /\ thr[t].pc = "idle"
  /\ thr' = [thr EXCEPT ![t] =
               [pc |-> IF op \in WriteOps THEN "try_borrow_mut" ELSE "try_borrow",
                op |-> op, arg |-> Stored(op, b), b |-> 0, val |-> FALSE,
                seen |-> {Cell(CellOf(op)).value}]]
  /\ UNCHANGED <<heap, overrun, fault, obj, fmtetc, stgmeds, fdoopasync,
                 inoperation, enums, ret, hist, pc, window, drag, owned>>

\* the thread panics inside the callback
ThreadPanics(t) ==
  /\ fault' = "panic"
  /\ thr' = [thr EXCEPT ![t].pc = "panicked"]
  /\ UNCHANGED <<heap, overrun, obj, fmtetc, stgmeds, fdoopasync, inoperation,
                 enums, ret, hist, pc, window, drag, owned>>

\* replace(): try_borrow_mut loads the count; anything but 0 is "already borrowed"
TryBorrowMutLoad(t) ==
  /\ Alive /\ thr[t].pc = "try_borrow_mut"
  /\ IF Cell(CellOf(thr[t].op)).flag # 0
     THEN ThreadPanics(t)
     ELSE /\ thr' = [thr EXCEPT ![t].pc = "borrow_mut_store"]
          /\ UNCHANGED <<heap, overrun, fault, obj, fmtetc, stgmeds, fdoopasync,
                         inoperation, enums, ret, hist, pc, window, drag, owned>>

\* replace(): try_borrow_mut stores the count of a writer
TryBorrowMutStore(t) ==
  /\ Alive /\ thr[t].pc = "borrow_mut_store"
  /\ LET w == CellOf(thr[t].op) IN SetCell(w, [Cell(w) EXCEPT !.flag = -1])
  /\ thr' = [thr EXCEPT ![t].pc = "write"]
  /\ UNCHANGED <<heap, overrun, fault, obj, fmtetc, stgmeds, enums, ret, hist,
                 pc, window, drag, owned>>

\* replace(): the value is written; readers under way may see it
ReplaceWrite(t) ==
  /\ Alive /\ thr[t].pc = "write"
  /\ LET w == CellOf(thr[t].op) IN
     /\ SetCell(w, [Cell(w) EXCEPT !.value = thr[t].arg])
     /\ thr' = [u \in Threads |->
                  IF u = t THEN [thr[u] EXCEPT !.pc = "drop_mut"]
                  ELSE IF thr[u].pc \notin {"idle", "panicked"} /\ CellOf(thr[u].op) = w
                       THEN [thr[u] EXCEPT !.seen = @ \cup {thr[t].arg}]
                       ELSE thr[u]]
  /\ UNCHANGED <<heap, overrun, fault, obj, fmtetc, stgmeds, enums, ret, hist,
                 pc, window, drag, owned>>

\* replace(): the RefMut is dropped (count + 1) and the method returns Ok(())
DropRefMut(t) ==
  /\ Alive /\ thr[t].pc = "drop_mut"
  /\ LET w == CellOf(thr[t].op) IN
     /\ SetCell(w, [Cell(w) EXCEPT !.flag = @ + 1])
     /\ hist' = IF w = "fdoopasync" THEN [hist EXCEPT !.mode = thr[t].arg]
                ELSE [hist EXCEPT !.started = thr[t].arg]
  /\ ret' = [Ret(thr[t].op) EXCEPT !.b = thr[t].arg, !.hr = S_OK]
  /\ thr' = [thr EXCEPT ![t].pc = "idle"]
  /\ UNCHANGED <<heap, overrun, fault, obj, fmtetc, stgmeds, enums, pc, window,
                 drag, owned>>

\* borrow(): try_borrow loads the count; a writer's count is "already mutably
\* borrowed"
TryBorrowLoad(t) ==
  /\ Alive /\ thr[t].pc = "try_borrow"
  /\ IF Cell(CellOf(thr[t].op)).flag + 1 <= 0
     THEN ThreadPanics(t)
     ELSE /\ thr' = [thr EXCEPT ![t].pc = "borrow_store",
                                ![t].b = Cell(CellOf(thr[t].op)).flag + 1]
          /\ UNCHANGED <<heap, overrun, fault, obj, fmtetc, stgmeds, fdoopasync,
                         inoperation, enums, ret, hist, pc, window, drag, owned>>

\* borrow(): try_borrow stores the count it computed
TryBorrowStore(t) ==
  /\ Alive /\ thr[t].pc = "borrow_store"
  /\ LET w == CellOf(thr[t].op) IN SetCell(w, [Cell(w) EXCEPT !.flag = thr[t].b])
  /\ thr' = [thr EXCEPT ![t].pc = "read"]
  /\ UNCHANGED <<heap, overrun, fault, obj, fmtetc, stgmeds, enums, ret, hist,
                 pc, window, drag, owned>>

\* borrow(): the flag is read through the Ref
BorrowRead(t) ==
  /\ Alive /\ thr[t].pc = "read"
  /\ thr' = [thr EXCEPT ![t].pc = "drop", ![t].val = Cell(CellOf(thr[t].op)).value]
  /\ UNCHANGED <<heap, overrun, fault, obj, fmtetc, stgmeds, fdoopasync,
                 inoperation, enums, ret, hist, pc, window, drag, owned>>

\* borrow(): the Ref is dropped (count - 1) and the method returns the value
DropRef(t) ==
  /\ Alive /\ thr[t].pc = "drop"
  /\ LET w == CellOf(thr[t].op) IN SetCell(w, [Cell(w) EXCEPT !.flag = @ - 1])
  /\ ret' = [Ret(thr[t].op) EXCEPT !.val = thr[t].val, !.hr = S_OK]
  /\ thr' = [thr EXCEPT ![t].pc = "idle"]
  /\ UNCHANGED <<heap, overrun, fault, obj, fmtetc, stgmeds, enums, hist, pc,
                 window, drag, owned>>

\* the consumer's thread writes, the owning thread reads
NextConc ==
  \/ \E op \in WriteOps, b \in BOOLEAN : ThreadCall("consumer", op, b)
  \/ \E op \in ReadOps : ThreadCall("owner", op, FALSE)
  \/ TryBorrowMutLoad("consumer")
  \/ TryBorrowMutStore("consumer")
  \/ ReplaceWrite("consumer")
  \/ DropRefMut("consumer")
  \/ TryBorrowLoad("owner")
  \/ TryBorrowStore("owner")
  \/ BorrowRead("owner")
  \/ DropRef("owner")

SpecConc == InitConc /\ [][NextConc]_vars

---------------------------------------------------------------------------
(* Properties of get and query_supported over every table *)

\* D is an entry of the table
IsEntry(d) == \E i \in 1 .. Len(fmtetc) : fmtetc[i] = d

\* e and q name the same format-id, aspect and index
SameKey(e, q) ==
  e.cfFormat = q.cfFormat /\ e.dwAspect = q.dwAspect /\ e.lindex = q.lindex

\* e's medium-kind and q's allowed medium-kinds have a kind in common
SharesKind(e, q) == \E bit \in {1, 2, 4, 8} :
  (e.tymed \div bit) % 2 = 1 /\ (q.tymed \div bit) % 2 = 1

\* every medium-kind of e is one q allows
KindContained(e, q) == \A bit \in {1, 2, 4, 8} :
  (e.tymed \div bit) % 2 = 1 => (q.tymed \div bit) % 2 = 1

\* the positions of the entries that answer q, by the rule the code applies
Answering(q) ==
  {i \in 1 .. Len(fmtetc) : SameKey(fmtetc[i], q) /\ SharesKind(fmtetc[i], q)}

\* the lowest of them
FirstAnswering(q) == CHOOSE i \in Answering(q) : \A j \in Answering(q) : i <= j

\* the handles the table's media hold
StoredHandles == {stgmeds[i].hGlobal : i \in 1 .. Len(stgmeds)}

\* every global-memory entry of the table holds a handle to a block
HandlesValid ==
  \A i \in 1 .. Len(fmtetc) :
    fmtetc[i].tymed = TYMED_HGLOBAL => IsBlock(heap, stgmeds[i].hGlobal)

\* C1 as stated: for every entry D of the table, query_supported(D) is true and
\* get(D), absent allocation failure, succeeds with a handle that is not the
\* stored one and whose block has the stored block's length and bytes (read
\* for tables whose global-memory entries hold valid handles, and for an entry
\* that holds a global-memory block at all).
C1_AsStated ==
  HandlesValid =>
    /\ (ret.op = "QueryGetData" /\ IsEntry(ret.fmt)) => ret.hr = S_OK
    /\ (ret.op = "GetData" /\ IsEntry(ret.fmt) /\ ret.allocOk /\ ret.lockOk) =>
         /\ ret.hr = S_OK
         /\ ret.med.hGlobal # NULL
         /\ IsBlock(heap, ret.med.hGlobal)
         /\ \A i \in 1 .. Len(fmtetc) :
              (fmtetc[i] = ret.fmt /\ IsBlock(heap, stgmeds[i].hGlobal)) =>
                /\ ret.med.hGlobal # stgmeds[i].hGlobal
                /\ heap[ret.med.hGlobal].bytes = heap[stgmeds[i].hGlobal].bytes

\* What does hold of get and query_supported on the table's entries: for every
\* entry D of the table that names at least one medium-kind,
\* query_supported(D) is true and get(D) does not fail with
\* FormatNotSupported; when the first entry answering D has medium-kind exactly
\* global-memory and holds a valid handle, get(D), absent allocation and lock
\* failure, succeeds with a fresh handle, none of the stored ones, whose block
\* has the length and the bytes of that entry's stored block.
C1_GetDuplicatesStored ==
  /\ (ret.op = "QueryGetData" /\ IsEntry(ret.fmt) /\ ret.fmt.tymed # 0) =>
       ret.hr = S_OK
  /\ (ret.op = "GetData" /\ IsEntry(ret.fmt) /\ ret.fmt.tymed # 0) =>
       /\ ret.hr # DV_E_FORMATETC
       /\ LET k == FirstAnswering(ret.fmt) IN
          (/\ fmtetc[k].tymed = TYMED_HGLOBAL
           /\ IsBlock(heap, stgmeds[k].hGlobal)
           /\ ret.allocOk /\ ret.lockOk) =>
            /\ ret.hr = S_OK
            /\ ret.med.tymed = TYMED_HGLOBAL
            /\ ret.med.hGlobal # NULL
            /\ ret.med.hGlobal \notin StoredHandles
            /\ IsBlock(heap, ret.med.hGlobal)
            /\ Len(heap[ret.med.hGlobal].bytes) = Len(heap[stgmeds[k].hGlobal].bytes)
            /\ heap[ret.med.hGlobal].bytes = heap[stgmeds[k].hGlobal].bytes

\* a get of an entry came back with a copy of a block of four bytes, from a
\* table whose second entry it is
C1_Witness ==
  /\ ret.op = "GetData" /\ IsEntry(ret.fmt) /\ ret.hr = S_OK
  /\ ret.idx = 2
  /\ IsBlock(heap, ret.med.hGlobal)
  /\ Len(heap[ret.med.hGlobal].bytes) = 4

\* q differs from every entry in format-id, aspect or index
DiffersFromAll(q) == \A i \in 1 .. Len(fmtetc) : ~SameKey(fmtetc[i], q)

\* C2: for every descriptor that differs from every table entry in format-id,
\* aspect or index, get fails with DV_E_FORMATETC and returns no medium (no
\* handle comes into the consumer's hands), and query_supported is false
\* (DV_E_FORMATETC).
C2_UnmatchedIsRefused ==
  /\ (ret.op = "GetData" /\ DiffersFromAll(ret.fmt)) =>
       /\ ret.hr = DV_E_FORMATETC
       /\ ret.med = NoMedium
       /\ ret.med.hGlobal \notin owned
  /\ (ret.op = "QueryGetData" /\ DiffersFromAll(ret.fmt)) =>
       ret.hr = DV_E_FORMATETC

\* a get was refused for a descriptor that differs from an entry of the table
\* in nothing but the index
C2_Witness ==
  /\ ret.op = "GetData" /\ DiffersFromAll(ret.fmt) /\ ret.hr = DV_E_FORMATETC
  /\ \E i \in 1 .. Len(fmtetc) :
       /\ fmtetc[i].cfFormat = ret.fmt.cfFormat
       /\ fmtetc[i].dwAspect = ret.fmt.dwAspect
       /\ fmtetc[i].tymed = ret.fmt.tymed
       /\ fmtetc[i].tymed = TYMED_HGLOBAL
       /\ fmtetc[i].lindex # ret.fmt.lindex

\* C3 as stated: query_supported(Q) is true iff some entry has Q's format-id,
\* aspect and index and every medium-kind bit of the entry is set in Q's set.
C3_AsStated ==
  ret.op = "QueryGetData" =>
    (ret.hr = S_OK <=>
       \E i \in 1 .. Len(fmtetc) :
         SameKey(fmtetc[i], ret.fmt) /\ KindContained(fmtetc[i], ret.fmt))

\* C3 amended: query_supported(Q) is true iff some entry has Q's format-id,
\* aspect and index and shares at least one medium-kind bit with Q's set; get
\* uses the answering entry of the lowest table position.
C3_MatchRule ==
  /\ ret.op = "QueryGetData" =>
       /\ ret.hr \in {S_OK, DV_E_FORMATETC}
       /\ ret.hr = S_OK <=> Answering(ret.fmt) # {}
  /\ ret.op = "GetData" =>
       /\ ret.hr = DV_E_FORMATETC <=> Answering(ret.fmt) = {}
       /\ Answering(ret.fmt) # {} => ret.idx = FirstAnswering(ret.fmt)
       /\ ret.hr = S_OK => ret.med.tymed = fmtetc[FirstAnswering(ret.fmt)].tymed

\* a get was answered by the first of two entries that both answer it, the
\* first of them naming two medium-kinds of which the request allows one
C3_Witness ==
  /\ ret.op = "GetData" /\ ret.hr = S_OK /\ ret.idx = 1
  /\ Answering(ret.fmt) = {1, 2}
  /\ fmtetc[1].tymed = BitOr(TYMED_HGLOBAL, TYMED_FILE)
  /\ ret.fmt.tymed = TYMED_HGLOBAL

---------------------------------------------------------------------------
(* Properties of the program *)

\* C4: in_operation() is false when no start_operation has been called since
\* creation or since the latest end_operation and true otherwise;
\* get_async_mode() is the argument of the latest set_async_mode, false when
\* there was none; each flag is what its own calls made it, whatever was
\* called on the other.
C4_AsyncFlags ==
  /\ ret.op = "InOperation" => ret.val = hist.started
  /\ ret.op = "GetAsyncMode" => ret.val = hist.mode
  /\ ret.op \in {"SetAsyncMode", "GetAsyncMode", "StartOperation", "InOperation",
                 "EndOperation"} => ret.hr = S_OK
  /\ obj => (inoperation.value = hist.started /\ fdoopasync.value = hist.mode)

\* in_operation() has answered true on an object whose async mode is set
C4_Witness ==
  /\ ret.op = "InOperation" /\ ret.val
  /\ hist.mode /\ fdoopasync.value

\* no thread is inside a call
AllIdle == \A t \in DOMAIN thr : thr[t].pc = "idle"

\* C5 as stated: with the consumer's thread in set_async_mode, start_operation
\* or end_operation and the owning thread in get_async_mode or in_operation,
\* no call fails (no panic, no borrow conflict), a read returns the value from
\* before the call or one written during it, and once all calls have returned
\* the flags are what the calls in some order leave (no borrow outstanding).
C5_AsStated ==
  /\ \A t \in DOMAIN thr : thr[t].pc # "panicked"
  /\ \A t \in DOMAIN thr :
       (thr[t].op \in ReadOps /\ thr[t].pc \in {"drop", "idle"}) =>
         thr[t].val \in thr[t].seen
  /\ AllIdle =>
       /\ fdoopasync = [flag |-> 0, value |-> hist.mode]
       /\ inoperation = [flag |-> 0, value |-> hist.started]

\* the primary or the secondary mouse button is held in key state k
ButtonHeld(k) == k % 2 = 1 \/ (k \div 2) % 2 = 1

\* the answer C6 gives for an input
C6_Expected(escape, keys) ==
  IF escape THEN DRAGDROP_S_CANCEL
  ELSE IF ~ButtonHeld(keys) THEN DRAGDROP_S_DROP
  ELSE S_OK

\* the state a query_continue call may not touch
C6_Untouched ==
  <<heap, overrun, fault, obj, fmtetc, stgmeds, fdoopasync, inoperation, enums,
    hist, pc, window, owned, thr>>

\* the answer of the last query_continue call is the one C6 gives for its input
C6_Decision ==
  ret.op = "QueryContinueDrag" => ret.hr = C6_Expected(ret.b, ret.n)

\* C6: query_continue answers Cancel when escape is pressed, whatever the
\* buttons; else Drop when neither the primary nor the secondary button is
\* held; else Continue (S_OK); the answer is a function of the two inputs, and
\* the call changes nothing of the objects, the heap or the event loop.
C6_QueryContinue ==
  /\ [] C6_Decision
  /\ [][ret'.op = "QueryContinueDrag" /\ ret' # ret => UNCHANGED C6_Untouched]_vars

\* escape was pressed with both buttons held, and the answer was Cancel
C6_Witness ==
  /\ ret.op = "QueryContinueDrag" /\ ret.b /\ ret.n = BitOr(MK_LBUTTON, MK_RBUTTON)
  /\ ret.hr = DRAGDROP_S_CANCEL
  /\ drag.decision = "cancel"

\* what every enumerator handed out holds, and what Next last gave
C7_Contents ==
  /\ \A e \in 1 .. Len(enums) :
       /\ enums[e].items = fmtetc
       /\ enums[e].pos \in 0 .. Len(fmtetc)
  /\ (ret.op = "EnumFormatEtc" /\ ret.n = DATADIR_GET /\ ret.hr = S_OK) =>
       enums[ret.idx] = [items |-> fmtetc, pos |-> 0]
  /\ (ret.op = "EnumNext" /\ ret.hr = S_OK) =>
       /\ ret.fmt = fmtetc[ret.idx]
       /\ enums[ret.n].pos = ret.idx
  /\ (ret.op = "EnumNext" /\ ret.hr # S_OK) => enums[ret.n].pos = Len(fmtetc)

\* C7: enumerate_formats in the get direction yields the table's entries, one
\* by one and in the table's order; every enumerator has the same contents,
\* and Next on one enumerator moves that one by one entry and no other.
C7_Enumerates ==
  /\ [] C7_Contents
  /\ [][(ret'.op = "EnumNext" /\ Len(enums') = Len(enums)) =>
          \A e \in 1 .. Len(enums) :
            /\ e # ret'.n => enums'[e] = enums[e]
            /\ (e = ret'.n /\ ret' # ret) =>
                 enums'[e].pos = Min(enums[e].pos + 1, Len(fmtetc))]_vars

\* of two enumerators over a table of two different entries, one has given
\* both entries and the other none
C7_Witness ==
  /\ Len(fmtetc) = 2 /\ fmtetc[1] # fmtetc[2]
  /\ Len(enums) = 2
  /\ enums[1].pos = 0 /\ enums[2].pos = 2
  /\ ret.op = "EnumNext" /\ ret.n = 2 /\ ret.fmt = fmtetc[2]

\* C8 as stated: get_into fails for every descriptor with the FormatNotSupported
\* error that get reports for an unmatched descriptor (DV_E_FORMATETC).
C8_AsStated ==
  ret.op = "GetDataHere" => ret.hr = DV_E_FORMATETC

\* C9: set returns NotImplemented, enumerate_formats in any direction but get
\* returns NotImplemented (and makes no enumerator), advise, unadvise and
\* enumerate_advisories return AdviseNotSupported; none of them succeeds.
C9_Unsupported ==
  /\ ret.op = "SetData" => ret.hr = E_NOTIMPL
  /\ (ret.op = "EnumFormatEtc" /\ ret.n # DATADIR_GET) => ret.hr = E_NOTIMPL
  /\ ret.op \in {"DAdvise", "DUnadvise", "EnumDAdvise"} =>
       ret.hr = OLE_E_ADVISENOTSUPPORTED
  /\ (ret.op \in {"SetData", "DAdvise", "DUnadvise", "EnumDAdvise"}
      \/ (ret.op = "EnumFormatEtc" /\ ret.n # DATADIR_GET)) => ret.hr < 0
  /\ \A e \in 1 .. Len(enums) : enums[e].items = fmtetc

\* enumerate_formats was refused for direction 0 while a transfer was in
\* operation
C9_Witness ==
  /\ ret.op = "EnumFormatEtc" /\ ret.n = 0 /\ ret.hr = E_NOTIMPL
  /\ inoperation.value

\* C10 as stated: get on the descriptor that matches main's table returns a
\* handle whose block holds the whole payload, the code units of
\* "Hello From TAO DROP" and the null unit, so that reading it up to the
\* terminator gives "Hello From TAO DROP".
C10_AsStated ==
  (ret.op = "GetData" /\ ret.hr = S_OK /\ ret.med.hGlobal # NULL) =>
    /\ heap[ret.med.hGlobal].bytes = ToBytes(HelloData)
    /\ UpToNul(ToUnits(heap[ret.med.hGlobal].bytes)) = HelloText

---------------------------------------------------------------------------
(* Properties of the drag session driver and of the memory helpers *)

\* C11: DoDragDrop is running only on a data object whose payload block was
\* allocated and whose table was built; when global_from_data fails, the
\* gesture goes no further: no data object is made and DoDragDrop is not
\* called.
C11_DragAfterBuild ==
  /\ drag.called =>
       /\ obj /\ Len(fmtetc) = 1 /\ Len(stgmeds) = 1
       /\ IsBlock(heap, stgmeds[1].hGlobal)
       /\ pc = "dragging"
  /\ (ret.op = "global_from_data" /\ ret.hr # S_OK) =>
       /\ ~drag.called
       /\ ~obj
       /\ pc = "wait"

\* after a gesture that ended in a drop, the next gesture's payload could not
\* be prepared (out of memory), and DoDragDrop was not called
C11_Witness ==
  /\ ret.op = "global_from_data" /\ ret.hr = E_OUTOFMEMORY
  /\ ~drag.called /\ drag.hr = DRAGDROP_S_DROP
  /\ fault = "panic"

\* C12 as stated: when DoDragDrop returns a failure code, the gesture ends in
\* an error outcome carrying that code, and the program goes on running (no
\* panic), back in the event loop.
C12_AsStated ==
  (ret.op = "DoDragDrop" /\ ret.hr < 0) =>
    /\ fault = "none"
    /\ drag.hr = ret.hr
    /\ pc = "wait"

\* the stored media are blocks of the heap that the data object still holds,
\* and what the last successful get returned has the stored block's bytes
\* (a get whose GlobalLock of the stored block gave a pointer: the copy
\* through a null pointer is C15's matter)
C13_Stored ==
  /\ obj =>
       \A i \in 1 .. Len(stgmeds) :
         /\ IsBlock(heap, stgmeds[i].hGlobal)
         /\ stgmeds[i].hGlobal \notin owned
  /\ (obj /\ ret.op = "GetData" /\ ret.hr = S_OK /\ ret.med.hGlobal # NULL) =>
       /\ IsBlock(heap, ret.med.hGlobal)
       /\ ret.lockOk =>
            heap[ret.med.hGlobal].bytes = heap[stgmeds[ret.idx].hGlobal].bytes

\* C13: whatever is called on a data object, successfully or not, its format
\* table, its stored media and the stored blocks (handle, length, bytes) stay
\* as they were, the blocks stay allocated and the object's own; so every
\* successful get that could lock the stored block returns the same bytes.
C13_StoredMediaKept ==
  /\ [] C13_Stored
  /\ [][(obj /\ obj') =>
          /\ fmtetc' = fmtetc
          /\ stgmeds' = stgmeds
          /\ \A i \in 1 .. Len(stgmeds) :
               heap'[stgmeds[i].hGlobal] = heap[stgmeds[i].hGlobal]]_vars

\* a get succeeded with the stored bytes on an object that had been enumerated
\* and on which an operation had been started
C13_Witness ==
  /\ obj /\ ret.op = "GetData" /\ ret.hr = S_OK /\ ret.lockOk
  /\ IsBlock(heap, ret.med.hGlobal)
  /\ ret.med.hGlobal # stgmeds[1].hGlobal
  /\ heap[ret.med.hGlobal].bytes = heap[stgmeds[1].hGlobal].bytes
  /\ hist.started /\ Len(enums) > 0

\* C14 as stated: the block global_from_data allocates for main's payload is
\* as long in bytes as the data copied into it, so that nothing is written
\* past the bytes asked of the allocator.
C14_AsStated ==
  (obj /\ ret.op = "global_from_data" /\ ret.hr = S_OK) =>
    /\ Len(ToBytes(HelloData)) <= Len(heap[stgmeds[1].hGlobal].bytes)
    /\ overrun = 0

\* C15 as stated: when GlobalLock of the stored handle yields a null pointer,
\* duplicate_global_data copies nothing through it and get reports an error.
C15_AsStated ==
  /\ fault # "null_read"
  /\ (/\ ret.op = "GetData" /\ ret.idx > 0
      /\ fmtetc[ret.idx].tymed = TYMED_HGLOBAL
      /\ GlobalLock(heap, stgmeds[ret.idx].hGlobal, ret.lockOk) = NULL) =>
       /\ ret.hr < 0
       /\ ret.med = NoMedium

\* C16 as stated: global_from_data, failing at the lock step, gives the heap
\* back as it found it and returns E_OUTOFMEMORY; and get returns, whether
\* duplicate_global_data succeeded or failed, with every lock taken on the
\* stored handle released.
C16_AsStated ==
  /\ FreeHandles(heap) # {} =>
       LET g == global_from_data(heap, HelloData, TRUE, FALSE) IN
       g.hr = E_OUTOFMEMORY /\ g.heap = heap /\ g.locked = 0
  /\ ret.op = "GetData" => ret.locked = 0

\* the descriptor a consumer asks for text: content aspect, index -1,
\* global memory
TextQuery == FormatEtc(CF_TEXT, "null", DVASPECT_CONTENT, -1, TYMED_HGLOBAL)

\* C17 as stated: the one descriptor of main's table is text, content aspect
\* (in the aspect field), index -1, global memory; so query_supported and get
\* for (text, content aspect, -1, global memory) match during the gesture.
C17_AsStated ==
  /\ obj =>
       /\ Len(fmtetc) = 1
       /\ fmtetc[1].cfFormat = CF_TEXT
       /\ fmtetc[1].dwAspect = DVASPECT_CONTENT
       /\ fmtetc[1].lindex = -1
       /\ fmtetc[1].tymed = TYMED_HGLOBAL
  /\ (ret.op = "QueryGetData" /\ ret.fmt = TextQuery) => ret.hr = S_OK
  /\ (ret.op = "GetData" /\ ret.fmt = TextQuery) => ret.hr # DV_E_FORMATETC

\* C18: the format sequence and the medium sequence of the data object are
\* equally long, each medium is of its descriptor's kind, and so the index a
\* lookup finds is an index of the medium sequence: get does not index out of
\* range.
C18_TableAligned ==
  /\ Len(fmtetc) = Len(stgmeds)
  /\ \A i \in 1 .. Len(fmtetc) : stgmeds[i].tymed = fmtetc[i].tymed
  /\ \A q \in DragQueries :
       /\ lookup_format(fmtetc, q) \in 0 .. Len(stgmeds)
       /\ ~GetData(fmtetc, stgmeds, heap, q, TRUE, TRUE).panic
  /\ (ret.op = "GetData" /\ ret.hr = S_OK) => ret.idx \in 1 .. Len(stgmeds)

\* a get found its entry at index 1 of a table of one format and one medium
C18_Witness ==
  /\ obj /\ ret.op = "GetData" /\ ret.hr = S_OK
  /\ ret.idx = 1 /\ Len(fmtetc) = 1 /\ Len(stgmeds) = 1
  /\ stgmeds[1].tymed = TYMED_HGLOBAL

\* C20 as stated: query_supported(D) is true exactly when get(D) does not fail
\* with FormatNotSupported, and a get that returns success returns a medium
\* with a payload handle, whatever the kind of the matched entry, and with no
\* owner to release it on the caller's behalf.
C20_AsStated ==
  /\ ret.op = "QueryGetData" =>
       (ret.hr = S_OK <=>
          GetData(fmtetc, stgmeds, heap, ret.fmt, TRUE, TRUE).hr # DV_E_FORMATETC)
  /\ ret.op = "GetData" =>
       (ret.hr # DV_E_FORMATETC <=> QueryGetData(fmtetc, ret.fmt) = S_OK)
  /\ (ret.op = "GetData" /\ ret.hr = S_OK) =>
       /\ ret.med.hGlobal # NULL
       /\ ret.med.pUnkForRelease = "None"

\* the decision DoDragDrop holds after a poll is the one C19 gives for the
\* poll's input
C19_Decision ==
  (ret.op = "QueryContinueDrag" /\ drag.called) =>
    /\ drag.decision = "none" <=> (~ret.b /\ ButtonHeld(ret.n))
    /\ ret.b => drag.decision = "cancel"
    /\ (~ret.b /\ ~ButtonHeld(ret.n)) => drag.decision = "drop"

\* C19 as stated: the gesture goes on exactly while escape is not pressed and
\* a button is held; the first poll with escape pressed or both buttons up
\* decides Cancel resp. Drop; a gesture's decision, once made, is the only
\* one; and, escape being pressed or the buttons released at last, every call
\* of DoDragDrop returns to the driver.
C19_AsStated ==
  /\ [] C19_Decision
  /\ [][(drag.decision # "none" /\ drag'.called) =>
          drag'.decision = drag.decision]_vars
  /\ drag.called ~> (ret.op = "DoDragDrop")

====
